---- MODULE Spec2Model ----
(***************************************************************************)
(* Model of the mentoraja backend: the two FastAPI applications of the     *)
(* repository, src/main.py (V36) and src/main3.py (V10), which serve the   *)
(* same record store (tables chat_history, subscriptions, mentors,         *)
(* mentor_docs) and the same payment gateway.                              *)
(*                                                                         *)
(* Time is counted in whole hours: the handlers are observed at whole      *)
(* hours only, so the minute and second digits of a time stamp are 00 and  *)
(* two requests served at the same value of `now` are served at the same   *)
(* second.                                                                 *)
(***************************************************************************)
EXTENDS Integers, Sequences, FiniteSets, TLC

VARIABLES
    chat_history,   \* table chat_history, in created_at order
    subscriptions,  \* table subscriptions, in insertion order
    now,            \* the wall clock, datetime.now(), in hours
    ticks,          \* how many times the clock was advanced (bounds the model)
    resp,           \* the request served by the last step, the handler's
                    \* locals at its return, and the response it gave
    clients         \* the chat requests in flight, one per client, each with
                    \* its position in the handler and its locals

vars == <<chat_history, subscriptions, now, ticks, resp, clients>>

----------------------------------------------------------------------------
(* Bounds of the model *)

\* rows of chat_history, rows of subscriptions and advances of the clock,
\* for each specification
MaxRows == 6
MaxRowsPay == 2
MaxSubsPay == 1
MaxTicksPay == 2
MaxRowsQuota == 12
MaxSubsQuota == 1
MaxTicksQuota == 1
MaxRowsFault == 6
MaxRowsSeq == 12
MaxTurnsSeq == 7
MaxRowsRace == 12
MaxTurnsRace == 1
MaxRowsOverrun == 14
MaxRowsLong == 22
MaxSubsShared == 2
MaxTicksShared == 1
MaxTurnsOverrun == 4

----------------------------------------------------------------------------
(* Program constants *)

FREE_QUOTA == 5            \* main3.py:133, main.py:241
HISTORY_LIMIT_MAIN == 20   \* main.py:260
HISTORY_LIMIT_MAIN3 == 10  \* main3.py:155
SUB_WINDOW_DAYS == 30      \* main3.py:122
HOURS_PER_DAY == 24
DAYS_PER_MONTH == 31       \* the calendar month the clock starts in (%d)
DEFAULT_DURATION == 1      \* main.py:525
PREFIX_LEN == 4            \* main.py:490  user_id[:4]

NULL == 0 - 1              \* an unset column, None

FALLBACK_MAIN == "Maaf, saya sedang memproses data Anda. Bisa diulangi?"
FALLBACK_MAIN3 == "Maaf, sistem sedang sibuk. Mohon coba lagi."
LIMIT_REACHED == "LIMIT_REACHED"
LLM_ERROR == "<<completion raised>>"

----------------------------------------------------------------------------
(* Inputs *)

UserA == <<"a", "b", "c", "d", "1">>
UserB == <<"a", "b", "c", "d", "2">>
Users == {UserA, UserB}
MentorIds == {1, 2}

\* table mentors: mentor 1 has a row, mentor 2 has none
MentorTable == [id \in {1} |-> [name |-> "Budi", expertise |-> "F&B"]]
\* table mentor_docs, joined per mentor
DocsTable == [id \in MentorIds |-> IF id = 1 THEN <<"kb1">> ELSE <<>>]

Msgs == {"halo", "modal 5000"}
Replies == {"jawab", "halo"}     \* a completion may repeat a user's text
LLMOutcomes == Replies \cup {LLM_ERROR}
LongDuration == 1000     \* hours, longer than the 30-day window of main3.py
Durations == {1, LongDuration}
TickSteps == {1, SUB_WINDOW_DAYS * HOURS_PER_DAY}

Min(a, b) == IF a < b THEN a ELSE b
Max(a, b) == IF a > b THEN a ELSE b

----------------------------------------------------------------------------
(* The record store: filtered reads *)

\* .eq("user_id", u).eq("mentor_id", m) on chat_history, in created_at order
PairRows(h, u, m) ==
    SelectSeq(h, LAMBDA r : r.user_id = u /\ r.mentor_id = m)

\* .order("created_at", desc=True).limit(n) followed by .reverse()
LastN(s, n) == SubSeq(s, Max(1, Len(s) - n + 1), Len(s))

\* select("id", count="exact") ... .eq("sender", "user")
UserCount(h, u, m) ==
    Len(SelectSeq(h, LAMBDA r : r.user_id = u /\ r.mentor_id = m /\ r.sender = "user"))

AiCount(h, u, m) ==
    Len(SelectSeq(h, LAMBDA r : r.user_id = u /\ r.mentor_id = m /\ r.sender = "ai"))

ChatRow(u, m, sender, message) ==
    [user_id |-> u, mentor_id |-> m, sender |-> sender, message |-> message]

\* main.py: status settlement and expires_at > now
IsSubscribedMain(subs, u, m, t) ==
    \E i \in 1..Len(subs) :
        /\ subs[i].user_id = u
        /\ subs[i].mentor_id = m
        /\ subs[i].status = "settlement"
        /\ subs[i].expires_at # NULL
        /\ subs[i].expires_at > t

\* main3.py: status settlement and created_at >= now - 30 days
IsSubscribedMain3(subs, u, m, t) ==
    \E i \in 1..Len(subs) :
        /\ subs[i].user_id = u
        /\ subs[i].mentor_id = m
        /\ subs[i].status = "settlement"
        /\ subs[i].created_at >= t - SUB_WINDOW_DAYS * HOURS_PER_DAY

\* the gate closing one message early
QuotaDeniedMain3_OneLate(is_subscribed, user_chat_count) ==
    ~is_subscribed /\ user_chat_count >= FREE_QUOTA + 1

QuotaDeniedMain3_OneEarly(is_subscribed, user_chat_count) ==
    ~is_subscribed /\ user_chat_count >= FREE_QUOTA - 1

\* the quota gate of main3.py (main.py holds the same lines commented out)
QuotaDeniedMain3(is_subscribed, user_chat_count) ==
    ~is_subscribed /\ user_chat_count >= FREE_QUOTA

\* mentor_data.data if mentor_data.data else {...}
MentorMain(m) ==
    IF m \in DOMAIN MentorTable
    THEN MentorTable[m]
    ELSE [name |-> "Mentor", expertise |-> "General"]

MentorMain3(m) ==
    IF m \in DOMAIN MentorTable
    THEN MentorTable[m]
    ELSE [name |-> "Mentor", expertise |-> "Bisnis"]

\* "\n\n".join([d['content'] for d in docs.data])
KnowledgeBase(m) == DocsTable[m]

\* re.search(r'\d+', request.message)
HasNumbers(msg) == msg \in {"modal 5000"}

----------------------------------------------------------------------------
(* The phase classifier of main.py *)

UserMessages(history) ==
    LET us == SelectSeq(history, LAMBDA r : r.sender = "user")
    IN  [i \in 1..Len(us) |-> us[i].message]

\* the classifier with the threshold one lower: the row of the message
\* being processed already ends the opening
analyze_chat_phase_ThresholdOne(history) ==
    LET user_messages == UserMessages(history)
    IN  IF Len(user_messages) < 1
        THEN [phase |-> "OPENING",
              instruction |-> [status |-> "FASE OPENING", context |-> <<>>]]
        ELSE [phase |-> "MENTORING",
              instruction |->
                  [status |-> "FASE MENTORING",
                   context |->
                       <<IF Len(user_messages) > 0 THEN user_messages[1] ELSE "Unknown",
                         IF Len(user_messages) > 1 THEN user_messages[2] ELSE "Unknown">>]]

analyze_chat_phase(history) ==
    LET user_messages == UserMessages(history)
    IN  IF Len(user_messages) < 2
        THEN [phase |-> "OPENING",
              instruction |-> [status |-> "FASE OPENING", context |-> <<>>]]
        ELSE [phase |-> "MENTORING",
              instruction |->
                  [status |-> "FASE MENTORING",
                   context |->
                       <<IF Len(user_messages) > 0 THEN user_messages[1] ELSE "Unknown",
                         IF Len(user_messages) > 1 THEN user_messages[2] ELSE "Unknown">>]]

----------------------------------------------------------------------------
(* The message list sent to the completion service *)

RoleOf(sender) == IF sender = "user" THEN "user" ELSE "assistant"

\* for chat in past_chats: if chat['message'] != request.message: append
MessagesPayload(window, msg) ==
    LET kept == SelectSeq(window, LAMBDA r : r.message # msg)
    IN  [i \in 1..Len(kept) |->
            [role |-> RoleOf(kept[i].sender), content |-> kept[i].message]]

FinalMessages(system_prompt, window, msg) ==
    <<[role |-> "system", content |-> system_prompt]>>
        \o MessagesPayload(window, msg)
        \o <<[role |-> "user", content |-> msg]>>

SystemPromptMain(m, chat_state) ==
    [app |-> "main",
     name |-> MentorMain(m).name,
     expertise |-> MentorMain(m).expertise,
     knowledge |-> KnowledgeBase(m),
     instruction |-> chat_state.instruction]

SystemPromptMain3(m, msg) ==
    [app |-> "main3",
     name |-> MentorMain3(m).name,
     knowledge |-> KnowledgeBase(m),
     math_mode |-> HasNumbers(msg),
     instruction |-> {"PHASE 1", "PHASE 2", "PHASE 3"}]

----------------------------------------------------------------------------
(* POST /chat *)

\* the store operations of a chat turn, in the order the handler makes them;
\* `fault` names the one that raises, or "none"
StoreOpsMain ==
    <<"subscriptions.select", "mentors.select", "mentor_docs.select",
      "chat_history.insert_user", "chat_history.select", "chat_history.insert_ai">>
StoreOpsMain3 ==
    <<"subscriptions.select", "chat_history.count", "mentors.select",
      "mentor_docs.select", "chat_history.insert_user", "chat_history.select",
      "chat_history.insert_ai">>
Range(s) == {s[i] : i \in 1..Len(s)}
FaultsMain == Range(StoreOpsMain) \cup {"none"}
FaultsMain3 == Range(StoreOpsMain3) \cup {"none"}

\* a failure of the knowledge read is swallowed and the turn goes on
Passes_DocsOptional(ops, fault, op) ==
    \/ fault = "mentor_docs.select"
    \/ \A i \in 1..Len(ops) :
           ops[i] = fault => \E j \in 1..Len(ops) : ops[j] = op /\ j < i

\* TRUE iff the handler gets past store operation `op` of `ops`
Passes(ops, fault, op) ==
    \A i \in 1..Len(ops) :
        ops[i] = fault => \E j \in 1..Len(ops) : ops[j] = op /\ j < i

\* the denial with the usage written as the constant of the gate
DenialBody_ConstantUsage(user_chat_count) ==
    [reply |-> LIMIT_REACHED, mentor |-> "System", usage |-> FREE_QUOTA]

\* the soft denial of the quota gate
DenialBody(user_chat_count) ==
    [reply |-> LIMIT_REACHED, mentor |-> "System", usage |-> user_chat_count]

\* the except branch leaves ai_reply as it was initialised
AiReplyMain_NoApology(out) == IF out = LLM_ERROR THEN "" ELSE out

\* try: ai_reply = completion...  except: ai_reply = <the apology>
AiReplyMain(out) == IF out = LLM_ERROR THEN FALLBACK_MAIN ELSE out

AiReplyMain3(out) == IF out = LLM_ERROR THEN FALLBACK_MAIN3 ELSE out

\* the response of main.py: the voice engine has no key configured and
\* returns None, so no video is requested either
MainBody(name, ai_reply) ==
    [mentor |-> name, reply |-> ai_reply, audio |-> NULL, video |-> NULL]

ChatResp(app, u, m, msg) ==
    [op |-> "chat", app |-> app, user_id |-> u, mentor_id |-> m, message |-> msg,
     http |-> 500, body |-> [detail |-> "Internal Server Error"],
     is_subscribed |-> FALSE, user_chat_count |-> NULL, phase |-> "",
     llm |-> "not called", final_messages |-> <<>>]

\* chat_with_mentor of main.py: the rows and the response it leaves
ChatMainRun(h, subs, t, u, m, msg, out, fault) ==
    LET is_subscribed == IsSubscribedMain(subs, u, m, t)
        r0 == ChatResp("main", u, m, msg)
        r1 == [r0 EXCEPT !.is_subscribed = is_subscribed]
        h1 == Append(h, ChatRow(u, m, "user", msg))
        past_chats_raw == LastN(PairRows(h1, u, m), HISTORY_LIMIT_MAIN)
        chat_state == analyze_chat_phase(past_chats_raw)
        final_messages ==
            FinalMessages(SystemPromptMain(m, chat_state), past_chats_raw, msg)
        ai_reply == AiReplyMain(out)
        r2 == [r1 EXCEPT !.phase = chat_state.phase,
                         !.final_messages = final_messages,
                         !.llm = IF out = LLM_ERROR THEN "error" ELSE "ok"]
        h2 == Append(h1, ChatRow(u, m, "ai", ai_reply))
    IN  IF ~Passes(StoreOpsMain, fault, "subscriptions.select")
        THEN [hist |-> h, resp |-> r0]
        ELSE IF ~Passes(StoreOpsMain, fault, "chat_history.insert_user")
        THEN [hist |-> h, resp |-> r1]
        ELSE IF ~Passes(StoreOpsMain, fault, "chat_history.select")
        THEN [hist |-> h1, resp |-> r1]
        ELSE IF ~Passes(StoreOpsMain, fault, "chat_history.insert_ai")
        THEN [hist |-> h1, resp |-> r2]
        ELSE [hist |-> h2,
              resp |-> [r2 EXCEPT !.http = 200,
                          !.body = MainBody(MentorMain(m).name, ai_reply)]]

\* chat_with_mentor of main3.py
ChatMain3Run(h, subs, t, u, m, msg, out, fault) ==
    LET is_subscribed == IsSubscribedMain3(subs, u, m, t)
        user_chat_count == UserCount(h, u, m)
        r0 == ChatResp("main3", u, m, msg)
        r1 == [r0 EXCEPT !.is_subscribed = is_subscribed]
        r1c == [r1 EXCEPT !.user_chat_count = user_chat_count]
        h1 == Append(h, ChatRow(u, m, "user", msg))
        past_chats == LastN(PairRows(h1, u, m), HISTORY_LIMIT_MAIN3)
        final_messages ==
            FinalMessages(SystemPromptMain3(m, msg), past_chats, msg)
        ai_reply == AiReplyMain3(out)
        r2 == [r1c EXCEPT !.final_messages = final_messages,
                          !.llm = IF out = LLM_ERROR THEN "error" ELSE "ok"]
        h2 == Append(h1, ChatRow(u, m, "ai", ai_reply))
    IN  IF ~Passes(StoreOpsMain3, fault, "subscriptions.select")
        THEN [hist |-> h, resp |-> r0]
        ELSE IF ~Passes(StoreOpsMain3, fault, "chat_history.count")
        THEN [hist |-> h, resp |-> r1]
        ELSE IF QuotaDeniedMain3(is_subscribed, user_chat_count)
        THEN [hist |-> h,
              resp |-> [r1c EXCEPT !.http = 200,
                                   !.body = DenialBody(user_chat_count)]]
        ELSE IF ~Passes(StoreOpsMain3, fault, "chat_history.insert_user")
        THEN [hist |-> h, resp |-> r1c]
        ELSE IF ~Passes(StoreOpsMain3, fault, "chat_history.select")
        THEN [hist |-> h1, resp |-> r1c]
        ELSE IF ~Passes(StoreOpsMain3, fault, "chat_history.insert_ai")
        THEN [hist |-> h1, resp |-> r2]
        ELSE [hist |-> h2,
              resp |-> [r2 EXCEPT !.http = 200,
                          !.body = [mentor |-> MentorMain3(m).name,
                                    reply |-> ai_reply]]]

ChatMain(u, m, msg, out, fault, cap) ==
    LET run == ChatMainRun(chat_history, subscriptions, now, u, m, msg, out, fault)
    IN  /\ Len(run.hist) <= cap
        /\ chat_history' = run.hist
        /\ resp' = run.resp
        /\ UNCHANGED <<subscriptions, now, ticks, clients>>

ChatMain3(u, m, msg, out, fault, cap) ==
    LET run == ChatMain3Run(chat_history, subscriptions, now, u, m, msg, out, fault)
    IN  /\ Len(run.hist) <= cap
        /\ chat_history' = run.hist
        /\ resp' = run.resp
        /\ UNCHANGED <<subscriptions, now, ticks, clients>>

\* .single().execute() on mentors asks the store for exactly one object.
\* For an id without a row the store answers such a request with an error,
\* which the client library hands on by raising or, failing that, as a
\* result without data: both outcomes are kept.
SingleOutcomes == {"no data", "raises"}

\* the call of a turn that raises, if the turn reaches it: the store call
\* named by `fault`, or the mentors read when .single() raises
Raising(ops, m, fault, single) ==
    IF /\ m \notin DOMAIN MentorTable
       /\ single = "raises"
       /\ Passes(ops, fault, "mentors.select")
    THEN "mentors.select"
    ELSE fault

\* the call that did raise in a turn of main3.py: none when the quota gate
\* returned before the call was reached
RaisedMain3(h, subs, t, u, m, fault, single) ==
    LET raising == Raising(StoreOpsMain3, m, fault, single)
    IN  IF /\ Passes(StoreOpsMain3, raising, "chat_history.count")
           /\ QuotaDeniedMain3(IsSubscribedMain3(subs, u, m, t), UserCount(h, u, m))
        THEN "none"
        ELSE raising

\* what a turn with failures adds to the record of the step
FaultResp(m, out, fault, raised, ai_reply) ==
    [fault |-> fault, raised |-> raised,
     mentor_found |-> m \in DOMAIN MentorTable, ai_reply |-> ai_reply]

\* POST /chat of main.py with a store call or .single() that may raise
ChatMainF(u, m, msg, out, fault, single, cap) ==
    LET raising == Raising(StoreOpsMain, m, fault, single)
        run == ChatMainRun(chat_history, subscriptions, now, u, m, msg, out, raising)
    IN  /\ Len(run.hist) <= cap
        /\ chat_history' = run.hist
        /\ resp' = run.resp @@ FaultResp(m, out, fault, raising, AiReplyMain(out))
        /\ UNCHANGED <<subscriptions, now, ticks, clients>>

\* POST /chat of main3.py with a store call or .single() that may raise
ChatMain3F(u, m, msg, out, fault, single, cap) ==
    LET raising == Raising(StoreOpsMain3, m, fault, single)
        run == ChatMain3Run(chat_history, subscriptions, now, u, m, msg, out, raising)
        raised == RaisedMain3(chat_history, subscriptions, now, u, m, fault, single)
    IN  /\ Len(run.hist) <= cap
        /\ chat_history' = run.hist
        /\ resp' = run.resp @@ FaultResp(m, out, fault, raised, AiReplyMain3(out))
        /\ UNCHANGED <<subscriptions, now, ticks, clients>>

\* DELETE /chat/reset (main.py)
ResetChat(u, m) ==
    /\ chat_history' =
           SelectSeq(chat_history, LAMBDA r : ~(r.user_id = u /\ r.mentor_id = m))
    /\ resp' = [op |-> "reset", app |-> "main", http |-> 200,
                body |-> [message |-> "Chat history deleted successfully"]]
    /\ UNCHANGED <<subscriptions, now, ticks, clients>>

----------------------------------------------------------------------------
(* Payments *)

\* user_id[:4]
Prefix(u) == SubSeq(u, 1, Min(PREFIX_LEN, Len(u)))

\* datetime.now().strftime('%d%H%M%S') read as a number: ddHHMMSS
Stamp(t) ==
    (1 + ((t \div HOURS_PER_DAY) % DAYS_PER_MONTH)) * 1000000
        + ((t % HOURS_PER_DAY) * 10000)

\* f"SUB-{user_id[:4]}-{stamp}-{duration_hours}" and f"SUB-{user_id[:4]}-{stamp}"
OrderIdMain(u, t, d) == [pfx |-> Prefix(u), stamp |-> Stamp(t), dur |-> d]
OrderIdMain3(u, t) == [pfx |-> Prefix(u), stamp |-> Stamp(t), dur |-> NULL]
\* an order id no payment of these applications produced
UnknownOrder == [pfx |-> <<>>, stamp |-> NULL, dur |-> NULL]

\* try: int(order_id.split('-')[-1])  except: 1
ParseDuration(order_id) ==
    IF order_id.dur # NULL THEN order_id.dur
    ELSE IF order_id.stamp # NULL THEN order_id.stamp
    ELSE DEFAULT_DURATION

SubRow(u, m, order_id, t) ==
    [user_id |-> u, mentor_id |-> m, midtrans_order_id |-> order_id,
     status |-> "pending", created_at |-> t,
     start_date |-> NULL, expires_at |-> NULL]

PaymentResp(app, ok) ==
    [op |-> "payment", app |-> app, http |-> IF ok THEN 200 ELSE 500]

\* POST /payment/create of main.py; `gateway` is whether snap.create_transaction
\* returned
CreatePaymentMain(u, m, d, gateway, cap) ==
    LET order_id == OrderIdMain(u, now, d)
        ok == m \in DOMAIN MentorTable /\ gateway
    IN  /\ Len(subscriptions) < cap
        /\ subscriptions' =
               IF ok THEN Append(subscriptions, SubRow(u, m, order_id, now))
               ELSE subscriptions
        /\ resp' = PaymentResp("main", ok)
        /\ UNCHANGED <<chat_history, now, ticks, clients>>

\* POST /payment/create of main3.py
CreatePaymentMain3(u, m, gateway, cap) ==
    LET order_id == OrderIdMain3(u, now)
    IN  /\ Len(subscriptions) < cap
        /\ subscriptions' =
               IF gateway THEN Append(subscriptions, SubRow(u, m, order_id, now))
               ELSE subscriptions
        /\ resp' = PaymentResp("main3", gateway)
        /\ UNCHANGED <<chat_history, now, ticks, clients>>

NotifStatuses ==
    {"capture", "settlement", "deny", "cancel", "expire", "pending", "absent"}

\* .update(patch).eq("midtrans_order_id", order_id): the columns named in
\* patch are overwritten in every row of the order
UpdateOrder(subs, order_id, patch) ==
    [i \in 1..Len(subs) |->
        IF subs[i].midtrans_order_id = order_id
        THEN [c \in DOMAIN subs[i] |->
                 IF c \in DOMAIN patch THEN patch[c] ELSE subs[i][c]]
        ELSE subs[i]]

NotifyResp(app, status) ==
    [op |-> "notify", app |-> app, http |-> 200, body |-> [status |-> status]]

\* the rows midtrans_notification of main.py leaves
NotifyMainRows(subs, t, order_id, transaction_status) ==
    IF transaction_status \in {"capture", "settlement"}
    THEN UpdateOrder(subs, order_id,
                     [status |-> "settlement",
                      start_date |-> t,
                      expires_at |-> t + ParseDuration(order_id)])
    ELSE IF transaction_status \in {"deny", "cancel", "expire"}
    THEN UpdateOrder(subs, order_id, [status |-> "failed"])
    ELSE subs

\* the rows midtrans_notification of main3.py leaves
NotifyMain3Rows(subs, order_id, transaction_status) ==
    LET s == IF transaction_status \in {"capture", "settlement"} THEN "settlement"
             ELSE IF transaction_status \in {"cancel", "deny", "expire"} THEN "failed"
             ELSE "pending"
    IN  IF transaction_status = "absent"
        THEN subs
        ELSE UpdateOrder(subs, order_id, [status |-> s])

\* POST /midtrans-notification of main.py
NotifyMain(order_id, transaction_status) ==
    /\ subscriptions' = NotifyMainRows(subscriptions, now, order_id, transaction_status)
    /\ resp' = NotifyResp("main", "ok")
    /\ UNCHANGED <<chat_history, now, ticks, clients>>

\* POST /midtrans-notification of main3.py
NotifyMain3(order_id, transaction_status) ==
    /\ subscriptions' = NotifyMain3Rows(subscriptions, order_id, transaction_status)
    /\ resp' = NotifyResp("main3", IF transaction_status = "absent" THEN "error" ELSE "ok")
    /\ UNCHANGED <<chat_history, now, ticks, clients>>

\* the order ids a notification may carry
KnownOrders(subs) == {subs[i].midtrans_order_id : i \in 1..Len(subs)} \cup {UnknownOrder}

----------------------------------------------------------------------------
(* The clock *)

Tick(d, cap) ==
    /\ ticks < cap
    /\ now' = now + d
    /\ ticks' = ticks + 1
    /\ resp' = [op |-> "idle"]
    /\ UNCHANGED <<chat_history, subscriptions, clients>>

----------------------------------------------------------------------------
(* POST /chat, one call at a time *)

(* A chat_with_mentor in flight makes its store calls and its completion   *)
(* call one after the other without a transaction around them.  Requests   *)
(* served by different worker processes (and by the two applications)      *)
(* interleave between those calls.  A client has one request in flight at  *)
(* a time; it keeps count of its turns that reached the completion call    *)
(* and remembers whether one of its turns was classified MENTORING.        *)

ClientIds == {"c1", "c2"}

\* the calls of chat_with_mentor that read or write shared state, in the
\* order the handler makes them (the reads of mentors and mentor_docs, which
\* no handler writes, go with the call that follows them)
TurnStepsMain_CompletionFirst ==
    <<"subscriptions.select", "completion", "chat_history.insert_user",
      "chat_history.select", "chat_history.insert_ai">>

TurnStepsMain ==
    <<"subscriptions.select", "chat_history.insert_user",
      "chat_history.select", "completion", "chat_history.insert_ai">>

TurnStepsMain3 ==
    <<"subscriptions.select", "chat_history.count", "chat_history.insert_user",
      "chat_history.select", "completion", "chat_history.insert_ai">>

TurnSteps(app) == IF app = "main" THEN TurnStepsMain ELSE TurnStepsMain3

IdleClient ==
    [app |-> "main", user_id |-> <<>>, mentor_id |-> NULL, message |-> "",
     pc |-> 0, is_subscribed |-> FALSE, user_chat_count |-> NULL,
     phase |-> "", final_messages |-> <<>>, ai_reply |-> "", llm |-> "not called",
     written |-> <<>>, http |-> NULL, body |-> [detail |-> "no response"],
     started |-> 0, calls |-> 0, taught |-> "no", peak |-> 0]

\* the call a client's request makes next, "none" when no request is in flight
CurrentOp(cl) ==
    IF cl.pc \in 1..Len(TurnSteps(cl.app)) THEN TurnSteps(cl.app)[cl.pc] ELSE "none"

InFlight(cl) == CurrentOp(cl) # "none"

\* the request moves past the call it just made; after the last one the
\* handler returns its response
Advance(cl) ==
    IF cl.pc < Len(TurnSteps(cl.app))
    THEN [cl EXCEPT !.pc = @ + 1]
    ELSE [cl EXCEPT !.pc = Len(TurnSteps(cl.app)) + 1,
                    !.http = 200,
                    !.body = IF cl.app = "main"
                             THEN MainBody(MentorMain(cl.mentor_id).name, cl.ai_reply)
                             ELSE [mentor |-> MentorMain3(cl.mentor_id).name,
                                   reply |-> cl.ai_reply]]

\* the handler returns early
Return(cl, body) ==
    [cl EXCEPT !.pc = Len(TurnSteps(cl.app)) + 1, !.http = 200, !.body = body]

StepResp == [op |-> "step"]

\* the requests being handled at the moment
InFlightNow == Cardinality({d \in ClientIds : InFlight(clients[d])})

\* a client sends POST /chat (peak remembers the largest number of requests
\* that were in flight at a moment this client sent one)
BeginChat(c, app, u, m, msg, cap, turns) ==
    /\ ~InFlight(clients[c])
    /\ clients[c].started < turns
    /\ Len(chat_history) + 2 * (1 + InFlightNow) <= cap
    /\ clients' = [clients EXCEPT ![c] =
           [IdleClient EXCEPT !.app = app, !.user_id = u, !.mentor_id = m,
                              !.message = msg, !.pc = 1,
                              !.started = clients[c].started + 1,
                              !.calls = clients[c].calls,
                              !.taught = clients[c].taught,
                              !.peak = IF clients[c].peak > InFlightNow
                                       THEN clients[c].peak
                                       ELSE 1 + InFlightNow]]
    /\ resp' = StepResp
    /\ UNCHANGED <<chat_history, subscriptions, now, ticks>>

\* sub_check ... is_subscribed = len(sub_check.data) > 0
SubscriptionsSelect(c) ==
    LET cl == clients[c]
        is_subscribed ==
            IF cl.app = "main"
            THEN IsSubscribedMain(subscriptions, cl.user_id, cl.mentor_id, now)
            ELSE IsSubscribedMain3(subscriptions, cl.user_id, cl.mentor_id, now)
    IN  /\ CurrentOp(cl) = "subscriptions.select"
        /\ clients' = [clients EXCEPT ![c] =
               Advance([cl EXCEPT !.is_subscribed = is_subscribed])]
        /\ resp' = StepResp
        /\ UNCHANGED <<chat_history, subscriptions, now, ticks>>

\* history_count ... and the quota gate of main3.py
ChatHistoryCount(c) ==
    LET cl == clients[c]
        user_chat_count == UserCount(chat_history, cl.user_id, cl.mentor_id)
        counted == [cl EXCEPT !.user_chat_count = user_chat_count]
    IN  /\ CurrentOp(cl) = "chat_history.count"
        /\ clients' = [clients EXCEPT ![c] =
               IF QuotaDeniedMain3(cl.is_subscribed, user_chat_count)
               THEN Return(counted, DenialBody(user_chat_count))
               ELSE Advance(counted)]
        /\ resp' = StepResp
        /\ UNCHANGED <<chat_history, subscriptions, now, ticks>>

\* insert of the user row
InsertUser(c) ==
    LET cl == clients[c]
    IN  /\ CurrentOp(cl) = "chat_history.insert_user"
        /\ chat_history' = Append(chat_history,
               ChatRow(cl.user_id, cl.mentor_id, "user", cl.message))
        /\ clients' = [clients EXCEPT ![c] =
               Advance([cl EXCEPT !.written = Append(@, "user")])]
        /\ resp' = StepResp
        /\ UNCHANGED <<subscriptions, now, ticks>>


\* the phase taken from the rows kept for the payload (those that differ
\* from the current message) instead of the whole window
ChatHistorySelect_PhaseFromPayload(c) ==
    LET cl == clients[c]
        rows == PairRows(chat_history, cl.user_id, cl.mentor_id)
        past_chats_raw == LastN(rows, HISTORY_LIMIT_MAIN)
        chat_state == analyze_chat_phase(
            SelectSeq(past_chats_raw, LAMBDA r : r.message # cl.message))
        past_chats == LastN(rows, HISTORY_LIMIT_MAIN3)
    IN  /\ CurrentOp(cl) = "chat_history.select"
        /\ clients' = [clients EXCEPT ![c] =
               Advance(IF cl.app = "main"
                       THEN [cl EXCEPT
                               !.phase = chat_state.phase,
                               !.final_messages =
                                   FinalMessages(SystemPromptMain(cl.mentor_id, chat_state),
                                                 past_chats_raw, cl.message),
                               !.taught = IF chat_state.phase = "MENTORING"
                                          THEN "yes" ELSE @]
                       ELSE [cl EXCEPT
                               !.final_messages =
                                   FinalMessages(SystemPromptMain3(cl.mentor_id, cl.message),
                                                 past_chats, cl.message)])]
        /\ resp' = StepResp
        /\ UNCHANGED <<chat_history, subscriptions, now, ticks>>

\* the history window, the phase (main.py) and the message list
ChatHistorySelect(c) ==
    LET cl == clients[c]
        rows == PairRows(chat_history, cl.user_id, cl.mentor_id)
        past_chats_raw == LastN(rows, HISTORY_LIMIT_MAIN)
        chat_state == analyze_chat_phase(past_chats_raw)
        past_chats == LastN(rows, HISTORY_LIMIT_MAIN3)
    IN  /\ CurrentOp(cl) = "chat_history.select"
        /\ clients' = [clients EXCEPT ![c] =
               Advance(IF cl.app = "main"
                       THEN [cl EXCEPT
                               !.phase = chat_state.phase,
                               !.final_messages =
                                   FinalMessages(SystemPromptMain(cl.mentor_id, chat_state),
                                                 past_chats_raw, cl.message),
                               !.taught = IF chat_state.phase = "MENTORING"
                                          THEN "yes" ELSE @]
                       ELSE [cl EXCEPT
                               !.final_messages =
                                   FinalMessages(SystemPromptMain3(cl.mentor_id, cl.message),
                                                 past_chats, cl.message)])]
        /\ resp' = StepResp
        /\ UNCHANGED <<chat_history, subscriptions, now, ticks>>

\* client.chat.completions.create inside try/except
Completion(c, out) ==
    LET cl == clients[c]
    IN  /\ CurrentOp(cl) = "completion"
        /\ clients' = [clients EXCEPT ![c] =
               Advance([cl EXCEPT
                          !.ai_reply = IF cl.app = "main"
                                       THEN AiReplyMain(out) ELSE AiReplyMain3(out),
                          !.llm = IF out = LLM_ERROR THEN "error" ELSE "ok",
                          !.calls = @ + 1])]
        /\ resp' = StepResp
        /\ UNCHANGED <<chat_history, subscriptions, now, ticks>>

\* insert of the assistant row, then the response
InsertAi(c) ==
    LET cl == clients[c]
    IN  /\ CurrentOp(cl) = "chat_history.insert_ai"
        /\ chat_history' = Append(chat_history,
               ChatRow(cl.user_id, cl.mentor_id, "ai", cl.ai_reply))
        /\ clients' = [clients EXCEPT ![c] =
               Advance([cl EXCEPT !.written = Append(@, "ai")])]
        /\ resp' = StepResp
        /\ UNCHANGED <<subscriptions, now, ticks>>

\* a client sends DELETE /chat/reset (main.py) between its chat requests
ClientReset(c, u, m) ==
    /\ ~InFlight(clients[c])
    /\ chat_history' =
           SelectSeq(chat_history, LAMBDA r : ~(r.user_id = u /\ r.mentor_id = m))
    /\ clients' = [clients EXCEPT ![c] =
           [IdleClient EXCEPT !.started = clients[c].started,
                              !.calls = clients[c].calls,
                              !.taught = IF clients[c].taught = "yes"
                                         THEN "reset" ELSE clients[c].taught]]
    /\ resp' = [op |-> "reset", app |-> "main", http |-> 200,
                body |-> [message |-> "Chat history deleted successfully"]]
    /\ UNCHANGED <<subscriptions, now, ticks>>

\* the calls of the requests in flight
TurnStep(c, outs) ==
    \/ SubscriptionsSelect(c)
    \/ ChatHistoryCount(c)
    \/ InsertUser(c)
    \/ ChatHistorySelect(c)
    \/ \E out \in outs : Completion(c, out)
    \/ InsertAi(c)

----------------------------------------------------------------------------
(* Specifications *)

Init ==
    /\ chat_history = <<>>
    /\ subscriptions = <<>>
    /\ now = 0
    /\ ticks = 0
    /\ resp = [op |-> "idle"]
    /\ clients = [c \in ClientIds |-> IdleClient]

\* Spec: the conversations of two users with one mentor, with every message
\* and every outcome of the completion call
Next ==
    \/ \E u \in Users, msg \in Msgs, out \in LLMOutcomes :
          ChatMain(u, 1, msg, out, "none", MaxRows)
    \/ \E u \in Users, msg \in Msgs, out \in LLMOutcomes :
          ChatMain3(u, 1, msg, out, "none", MaxRows)
    \/ \E u \in Users : ResetChat(u, 1)

Spec == Init /\ [][Next]_vars

\* SpecPay: the payments of two users, every notification and the clock, with
\* one-turn conversations
NextPay ==
    \/ \E u \in Users : ChatMain(u, 1, "halo", "jawab", "none", MaxRowsPay)
    \/ \E u \in Users : ChatMain3(u, 1, "halo", "jawab", "none", MaxRowsPay)
    \/ \E u \in Users : ResetChat(u, 1)
    \/ \E u \in Users, d \in Durations, g \in BOOLEAN :
          CreatePaymentMain(u, 1, d, g, MaxSubsPay)
    \/ \E u \in Users, g \in BOOLEAN : CreatePaymentMain3(u, 1, g, MaxSubsPay)
    \/ \E o \in KnownOrders(subscriptions), ts \in NotifStatuses : NotifyMain(o, ts)
    \/ \E o \in KnownOrders(subscriptions), ts \in NotifStatuses : NotifyMain3(o, ts)
    \/ \E d \in TickSteps : Tick(d, MaxTicksPay)

SpecPay == Init /\ [][NextPay]_vars

\* SpecQuota: one user and one mentor, conversations that pass the free quota,
\* a long subscription and a clock that passes the 30-day window
NextQuota ==
    \/ \E msg \in Msgs : ChatMain(UserA, 1, msg, "jawab", "none", MaxRowsQuota)
    \/ \E msg \in Msgs : ChatMain3(UserA, 1, msg, "jawab", "none", MaxRowsQuota)
    \/ ResetChat(UserA, 1)
    \/ CreatePaymentMain(UserA, 1, LongDuration, TRUE, MaxSubsQuota)
    \/ \E o \in KnownOrders(subscriptions), ts \in {"settlement", "cancel"} :
          NotifyMain(o, ts)
    \/ Tick(SUB_WINDOW_DAYS * HOURS_PER_DAY + 1, MaxTicksQuota)

SpecQuota == Init /\ [][NextQuota]_vars

\* SpecFault: one user, a mentor with a row and one without, and every store
\* call of a turn failing in its turn
NextFault ==
    \/ \E out \in {"jawab", LLM_ERROR}, fault \in FaultsMain :
          ChatMainF(UserA, 1, "halo", out, fault, "no data", MaxRowsFault)
    \/ \E out \in {"jawab", LLM_ERROR}, fault \in FaultsMain3 :
          ChatMain3F(UserA, 1, "halo", out, fault, "no data", MaxRowsFault)
    \/ \E single \in SingleOutcomes :
          ChatMainF(UserA, 2, "halo", "jawab", "none", single, MaxRowsFault)
    \/ \E single \in SingleOutcomes :
          ChatMain3F(UserA, 2, "halo", "jawab", "none", single, MaxRowsFault)
    \/ ResetChat(UserA, 1)

SpecFault == Init /\ [][NextFault]_vars

\* SpecSeq: one client that sends its requests one after the other, to
\* either application
NextSeq ==
    \/ \E app \in {"main", "main3"}, msg \in Msgs :
          BeginChat("c1", app, UserA, 1, msg, MaxRowsSeq, MaxTurnsSeq)
    \/ TurnStep("c1", {"jawab"})
    \/ ClientReset("c1", UserA, 1)

SpecSeq == Init /\ [][NextSeq]_vars

\* SpecRace: two clients whose requests for the same pair interleave, after
\* any number of turns that ran undisturbed
NextRace ==
    \/ /\ \A c \in ClientIds : clients[c].started = 0
       /\ ChatMain(UserA, 1, "halo", "jawab", "none", MaxRowsRace)
    \/ /\ \A c \in ClientIds : clients[c].started = 0
       /\ ChatMain3(UserA, 1, "halo", "jawab", "none", MaxRowsRace)
    \/ \E c \in ClientIds, app \in {"main", "main3"} :
          BeginChat(c, app, UserA, 1, "halo", MaxRowsRace, MaxTurnsRace)
    \/ \E c \in ClientIds : TurnStep(c, {"jawab"})
    \/ ClientReset("c2", UserA, 1)

SpecRace == Init /\ [][NextRace]_vars

\* turns of main3.py alone for one unsubscribed pair, sent by clients whose
\* requests may overlap, and no reset
NextOverrun ==
    \/ \E c \in ClientIds :
          BeginChat(c, "main3", UserA, 1, "halo", MaxRowsOverrun, MaxTurnsOverrun)
    \/ \E c \in ClientIds : TurnStep(c, {"jawab"})

SpecOverrun == Init /\ [][NextOverrun]_vars

\* one long conversation on main.py, longer than the history window, with
\* every message, and its reset
NextLong ==
    \/ \E msg \in Msgs : ChatMain(UserA, 1, msg, "jawab", "none", MaxRowsLong)
    \/ ResetChat(UserA, 1)

SpecLong == Init /\ [][NextLong]_vars

\* the payments of two users whose ids begin with the same four characters,
\* for the same mentor, and the notifications of their orders
NextShared ==
    \/ \E u \in Users, g \in BOOLEAN :
          CreatePaymentMain(u, 1, DEFAULT_DURATION, g, MaxSubsShared)
    \/ \E u \in Users, g \in BOOLEAN : CreatePaymentMain3(u, 1, g, MaxSubsShared)
    \/ \E o \in KnownOrders(subscriptions), ts \in {"settlement", "cancel"} :
          NotifyMain(o, ts)
    \/ \E o \in KnownOrders(subscriptions), ts \in {"settlement", "cancel"} :
          NotifyMain3(o, ts)
    \/ Tick(1, MaxTicksShared)

SpecShared == Init /\ [][NextShared]_vars

----------------------------------------------------------------------------
(* What the claims speak of *)

\* the step just taken served a chat request and answered it
ChatAnswered(r) == r.op = "chat" /\ r.http = 200

\* the answer is the soft denial of the quota gate
Denied(r) == ChatAnswered(r) /\ "usage" \in DOMAIN r.body

\* the answer is a reply of the mentor
NormalReply(r) ==
    /\ ChatAnswered(r)
    /\ {"mentor", "reply"} \subseteq DOMAIN r.body
    /\ r.llm # "not called"

HasSettlementRow(subs, u, m) ==
    \E i \in 1..Len(subs) :
        subs[i].user_id = u /\ subs[i].mentor_id = m /\ subs[i].status = "settlement"

\* a settlement row of the pair whose expiry is later than t
Entitled(subs, u, m, t) ==
    \E i \in 1..Len(subs) :
        /\ subs[i].user_id = u
        /\ subs[i].mentor_id = m
        /\ subs[i].status = "settlement"
        /\ subs[i].expires_at # NULL
        /\ t < subs[i].expires_at

UserRows(h, u, m) ==
    SelectSeq(h, LAMBDA r : r.user_id = u /\ r.mentor_id = m /\ r.sender = "user")

AiRows(h, u, m) ==
    SelectSeq(h, LAMBDA r : r.user_id = u /\ r.mentor_id = m /\ r.sender = "ai")

----------------------------------------------------------------------------
(* C1: for a pair with no settlement row, a chat call made when the pair    *)
(* has exactly FREE_QUOTA user rows is answered LIMIT_REACHED, whatever the *)
(* message; a call made with fewer user rows is answered by the mentor.     *)
C1_QuotaGate ==
    [][(resp'.op = "chat" /\ resp'.http = 200
            /\ ~HasSettlementRow(subscriptions, resp'.user_id, resp'.mentor_id))
        => LET n == UserCount(chat_history, resp'.user_id, resp'.mentor_id)
           IN  /\ n = FREE_QUOTA =>
                     Denied(resp') /\ resp'.body.reply = LIMIT_REACHED
               /\ n < FREE_QUOTA => NormalReply(resp')]_vars

(* C2: a chat call of a pair that has a settlement row with an expiry later *)
(* than the current time is never answered LIMIT_REACHED and reaches the    *)
(* completion call, whatever the number of user rows of the pair.           *)
C2_EntitlementOverride ==
    (ChatAnswered(resp)
        /\ Entitled(subscriptions, resp.user_id, resp.mentor_id, now))
    => (~Denied(resp) /\ resp.llm # "not called")

(* C3: a chat call treats the pair as subscribed if and only if a row of    *)
(* that pair has status settlement and the current time is before its       *)
(* expiry.                                                                  *)
C3_EntitledIff ==
    ChatAnswered(resp)
    => (resp.is_subscribed
            <=> Entitled(subscriptions, resp.user_id, resp.mentor_id, now))

(* C4: a chat call denied by the quota gate answers, with status 200,       *)
(* {reply: LIMIT_REACHED, mentor: System, usage: n}, n being the number of  *)
(* user rows of the pair at the check; it does not call the completion      *)
(* service and writes no assistant row.                                     *)
C4_SoftDenial ==
    [][Denied(resp')
        => /\ resp'.http = 200
           /\ resp'.body =
                  [reply |-> LIMIT_REACHED, mentor |-> "System",
                   usage |-> UserCount(chat_history, resp'.user_id, resp'.mentor_id)]
           /\ resp'.llm = "not called"
           /\ AiRows(chat_history', resp'.user_id, resp'.mentor_id)
                  = AiRows(chat_history, resp'.user_id, resp'.mentor_id)]_vars

\* a denial is reached with more user rows than the free quota
C4_Witness ==
    /\ Denied(resp)
    /\ resp.body.usage > FREE_QUOTA
    /\ resp.body.usage = UserCount(chat_history, resp.user_id, resp.mentor_id)

----------------------------------------------------------------------------
(* The history of a turn, as the claims describe it *)

HistoryLimit(app) ==
    IF app = "main" THEN HISTORY_LIMIT_MAIN ELSE HISTORY_LIMIT_MAIN3

\* the rows of the window of the turn answered by r, taken from the table h
\* as it was before the turn, without the row inserted for the turn
PriorRows(h, r) ==
    LET inserted == ChatRow(r.user_id, r.mentor_id, "user", r.message)
        window == LastN(PairRows(Append(h, inserted), r.user_id, r.mentor_id),
                        HistoryLimit(r.app))
    IN  SubSeq(window, 1, Len(window) - 1)

\* what the turn sent between the system entry and the current message
SentHistory(r) == SubSeq(r.final_messages, 2, Len(r.final_messages) - 1)

ModelCalled(r) == r.op = "chat" /\ r.llm # "not called"

Fallback(app) == IF app = "main" THEN FALLBACK_MAIN ELSE FALLBACK_MAIN3

\* the phase instruction in the system prompt of a turn of main.py
Instruction(r) == r.final_messages[1].content.instruction

----------------------------------------------------------------------------
(* C5, as claimed: a turn of main.py whose pair has fewer than 2 user       *)
(* messages recorded before the message being processed composes the        *)
(* OPENING instruction and not the MENTORING instruction.                   *)
C5_OpeningGate ==
    [][(ModelCalled(resp') /\ resp'.app = "main"
            /\ UserCount(chat_history, resp'.user_id, resp'.mentor_id) < 2)
        => (Instruction(resp').status = "FASE OPENING"
                /\ Instruction(resp').status # "FASE MENTORING")]_vars

(* C5, amended: a turn of main.py whose pair has no user message recorded   *)
(* before the message being processed composes the OPENING instruction and  *)
(* not the MENTORING instruction, whatever the message says.                *)
C5_OpeningGateAmended ==
    [][(ModelCalled(resp') /\ resp'.app = "main"
            /\ UserCount(chat_history, resp'.user_id, resp'.mentor_id) = 0)
        => (Instruction(resp').status = "FASE OPENING"
                /\ Instruction(resp').status # "FASE MENTORING"
                /\ resp'.phase = "OPENING")]_vars

\* a first turn of a pair, answered in the OPENING phase
C5_Witness ==
    /\ ModelCalled(resp) /\ resp.app = "main" /\ resp.http = 200
    /\ UserCount(chat_history, resp.user_id, resp.mentor_id) = 1
    /\ Instruction(resp).status = "FASE OPENING"

(* C6: when the completion call raises, the turn appends exactly one        *)
(* assistant row for the pair, holding the fixed apology, and answers with  *)
(* status 200 and {mentor, reply} with the same apology.                    *)
C6_FailSoft ==
    [][(resp'.op = "chat" /\ resp'.llm = "error")
        => /\ resp'.http = 200
           /\ {"mentor", "reply"} \subseteq DOMAIN resp'.body
           /\ resp'.body.reply = Fallback(resp'.app)
           /\ AiRows(chat_history', resp'.user_id, resp'.mentor_id)
                  = Append(AiRows(chat_history, resp'.user_id, resp'.mentor_id),
                           ChatRow(resp'.user_id, resp'.mentor_id, "ai",
                                   Fallback(resp'.app)))]_vars

\* a turn whose completion call raised, answered and recorded
C6_Witness ==
    /\ resp.op = "chat" /\ resp.llm = "error" /\ resp.http = 200
    /\ Len(chat_history) > 0
    /\ chat_history[Len(chat_history)].sender = "ai"
    /\ chat_history[Len(chat_history)].message = Fallback(resp.app)

(* C7: every earlier row of the window whose content equals the current     *)
(* message is retained in the history sent to the model.                    *)
C7_HistoryExclusion ==
    [][ModelCalled(resp')
        => Len(SelectSeq(SentHistory(resp'),
                         LAMBDA e : e.content = resp'.message))
             = Len(SelectSeq(PriorRows(chat_history, resp'),
                             LAMBDA r : r.message = resp'.message))]_vars

(* C8: the list sent to the model is one system entry, then the prior rows  *)
(* of the window in creation order with their roles, then the current user  *)
(* message.                                                                 *)
C8_MessageSequence ==
    [][ModelCalled(resp')
        => LET fm == resp'.final_messages
               prior == PriorRows(chat_history, resp')
           IN  /\ Len(fm) = Len(prior) + 2
               /\ fm[1].role = "system"
               /\ \A i \in 1..Len(prior) :
                      fm[i + 1] =
                          [role |-> IF prior[i].sender = "user"
                                    THEN "user" ELSE "assistant",
                           content |-> prior[i].message]
               /\ fm[Len(fm)] = [role |-> "user", content |-> resp'.message]]_vars

(* C9: a subscription row starts pending, leaves pending only through a     *)
(* notification, to settlement or failed, and once it has left pending no   *)
(* step changes its status, start time or expiry.                           *)
C9_SubscriptionLifecycle ==
    [][/\ Len(subscriptions') >= Len(subscriptions)
       /\ \A i \in 1..Len(subscriptions') :
              i > Len(subscriptions) => subscriptions'[i].status = "pending"
       /\ \A i \in 1..Len(subscriptions) :
              /\ subscriptions'[i].status # subscriptions[i].status
                     => /\ resp'.op = "notify"
                        /\ subscriptions'[i].status \in {"settlement", "failed"}
              /\ subscriptions[i].status # "pending"
                     => /\ subscriptions'[i].status = subscriptions[i].status
                        /\ subscriptions'[i].start_date = subscriptions[i].start_date
                        /\ subscriptions'[i].expires_at = subscriptions[i].expires_at]_vars

(* C10: every answered chat call appends one user row holding the submitted *)
(* message, also when the quota gate denies the call.                       *)
C10_InboundRecorded ==
    [][(resp'.op = "chat" /\ resp'.http = 200)
        => UserRows(chat_history', resp'.user_id, resp'.mentor_id)
             = Append(UserRows(chat_history, resp'.user_id, resp'.mentor_id),
                      ChatRow(resp'.user_id, resp'.mentor_id, "user",
                              resp'.message))]_vars

----------------------------------------------------------------------------
(* The turns of the clients, as the claims describe them *)

\* the request of client cl was answered with a reply of the model
Replied(cl) == cl.http = 200 /\ "usage" \notin DOMAIN cl.body

\* the request of client cl was answered with the denial of the quota gate
Refused(cl) == cl.http = 200 /\ "usage" \in DOMAIN cl.body

(* C11: an allowed chat turn appends exactly two rows for its pair, the     *)
(* user row before the completion call and the assistant row after it, and  *)
(* every write of a turn appends one row and leaves the rows already stored *)
(* as they are.                                                             *)
C11_TurnRecording ==
    [][/\ \A c \in ClientIds :
            LET old == clients[c]
                new == clients'[c]
            IN  /\ new.calls = old.calls + 1
                       => old.written = <<"user">> /\ new.written = <<"user">>
                /\ (Len(new.written) = Len(old.written) + 1)
                       => /\ new.written \in {<<"user">>, <<"user", "ai">>}
                          /\ new.written = <<"user", "ai">> => old.llm # "not called"
                          /\ chat_history' = Append(chat_history,
                                 ChatRow(old.user_id, old.mentor_id,
                                         new.written[Len(new.written)],
                                         IF Len(new.written) = 1
                                         THEN old.message ELSE old.ai_reply))
                /\ (Replied(new) /\ ~Replied(old))
                       => new.written = <<"user", "ai">>
       /\ (resp'.op = "chat" /\ NormalReply(resp'))
              => chat_history' = chat_history \o
                     <<ChatRow(resp'.user_id, resp'.mentor_id, "user", resp'.message),
                       ChatRow(resp'.user_id, resp'.mentor_id, "ai", resp'.body.reply)>>
      ]_vars

\* both clients were answered by the model after their turns interleaved:
\* the two user rows were written before either assistant row
C11_Witness ==
    /\ \A c \in ClientIds :
           Replied(clients[c]) /\ clients[c].written = <<"user", "ai">>
    /\ Len(chat_history) >= 4
    /\ LET n == Len(chat_history)
       IN  /\ chat_history[n - 3].sender = "user"
           /\ chat_history[n - 2].sender = "user"
           /\ chat_history[n - 1].sender = "ai"
           /\ chat_history[n].sender = "ai"

\* client c has just had the phase of its turn computed (main.py)
Classified(c) ==
    /\ CurrentOp(clients[c]) = "chat_history.select"
    /\ clients[c].app = "main"
    /\ clients'[c].pc # clients[c].pc

(* C12, as claimed: once a turn of a pair has been classified MENTORING, no *)
(* later turn of the pair is classified OPENING.                            *)
C12_ForwardOnly ==
    [][\A c \in ClientIds :
          (Classified(c) /\ clients'[c].phase = "OPENING")
              => clients[c].taught = "no"]_vars

(* C12, amended: once a turn of a pair has been classified MENTORING, a     *)
(* later turn of the pair is classified OPENING only after the history of   *)
(* the pair has been deleted by DELETE /chat/reset in between.              *)
C12_ForwardOnlyAmended ==
    [][\A c \in ClientIds :
          (Classified(c) /\ clients'[c].phase = "OPENING")
              => clients[c].taught # "yes"]_vars

\* a turn classified MENTORING after an earlier turn was, with other turns
\* (of main3.py, or denied) in between
C12_Witness ==
    /\ clients["c1"].phase = "MENTORING"
    /\ clients["c1"].taught = "yes"
    /\ clients["c1"].started >= 4
    /\ UserCount(chat_history, UserA, 1) >= 3

----------------------------------------------------------------------------
(* Turns with failures *)

\* the store reads a turn makes before it calls the model
GatingReads ==
    {"subscriptions.select", "chat_history.count", "mentors.select",
     "mentor_docs.select", "chat_history.select"}

(* C13: when a store read made before the model call fails, the turn ends   *)
(* with an error to the caller and the completion service is not invoked.   *)
C13_GatingReadFailure ==
    [][(resp'.op = "chat" /\ "raised" \in DOMAIN resp'
            /\ resp'.raised \in GatingReads)
        => /\ resp'.http # 200
           /\ resp'.llm = "not called"
           /\ AiRows(chat_history', resp'.user_id, resp'.mentor_id)
                  = AiRows(chat_history, resp'.user_id, resp'.mentor_id)]_vars

\* the read of the history window failed after the user row was written
C13_Witness ==
    /\ resp.op = "chat" /\ "raised" \in DOMAIN resp
    /\ resp.raised = "chat_history.select"
    /\ resp.http = 500 /\ resp.llm = "not called"
    /\ Len(chat_history) > 0
    /\ chat_history[Len(chat_history)].sender = "user"

(* C14: when the reply has been computed and the write of the assistant row *)
(* fails, the turn still returns the computed reply in a success-shaped     *)
(* response.                                                                *)
C14_OutboundWriteNotFatal ==
    [][(resp'.op = "chat" /\ "raised" \in DOMAIN resp'
            /\ resp'.raised = "chat_history.insert_ai")
        => /\ resp'.http = 200
           /\ {"mentor", "reply"} \subseteq DOMAIN resp'.body
           /\ resp'.body.reply = resp'.ai_reply]_vars

(* C15: when the mentors table has no row for the requested mentor, an      *)
(* allowed turn completes with the default persona: the prompt names        *)
(* "Mentor", the model is called, both rows are recorded and the response   *)
(* is {mentor: "Mentor", reply}.                                            *)
C15_MissingMentorFallback ==
    [][(resp'.op = "chat" /\ "raised" \in DOMAIN resp'
            /\ ~resp'.mentor_found /\ resp'.fault = "none" /\ ~Denied(resp'))
        => /\ resp'.http = 200
           /\ resp'.llm # "not called"
           /\ resp'.final_messages[1].content.name = "Mentor"
           /\ resp'.body.mentor = "Mentor"
           /\ resp'.body.reply = resp'.ai_reply
           /\ chat_history' = chat_history \o
                  <<ChatRow(resp'.user_id, resp'.mentor_id, "user", resp'.message),
                    ChatRow(resp'.user_id, resp'.mentor_id, "ai", resp'.ai_reply)>>]_vars

----------------------------------------------------------------------------
(* Concurrent turns *)

\* the request of client cl has run to its end
Served(cl) == cl.pc = Len(TurnSteps(cl.app)) + 1

\* both clients sent a turn to main3.py for the unsubscribed pair and both
\* read FREE_QUOTA - 1 user rows at the quota check: neither had inserted
\* its user row when the other counted
BothCountedBelowQuota ==
    \A c \in ClientIds :
        /\ clients[c].app = "main3"
        /\ clients[c].user_id = UserA /\ clients[c].mentor_id = 1
        /\ ~clients[c].is_subscribed
        /\ clients[c].user_chat_count = FREE_QUOTA - 1

(* C16: when two concurrent turns of an unsubscribed pair with              *)
(* FREE_QUOTA - 1 user rows both pass the quota check before either inserts *)
(* its user row, both reach the model and the pair ends with FREE_QUOTA + 1 *)
(* user rows; such an interleaving exists.                                  *)
C16_QuotaRace ==
    (BothCountedBelowQuota /\ \A c \in ClientIds : Served(clients[c]))
        => /\ \A c \in ClientIds :
                  Replied(clients[c]) /\ clients[c].llm # "not called"
           /\ UserCount(chat_history, UserA, 1) = FREE_QUOTA + 1

\* the interleaving: both turns counted FREE_QUOTA - 1 rows, both were
\* answered by the model, and the pair holds FREE_QUOTA + 1 user rows
C16_Witness ==
    /\ BothCountedBelowQuota
    /\ \A c \in ClientIds : Served(clients[c]) /\ Replied(clients[c])
    /\ \A c \in ClientIds : clients[c].calls = 1
    /\ UserCount(chat_history, UserA, 1) = FREE_QUOTA + 1

----------------------------------------------------------------------------
(* The free quota over a client's whole run *)

(* C19: for a pair that never has a settlement subscription, over a         *)
(* sequential run of chat and reset calls, at most FREE_QUOTA chat calls    *)
(* reach the model; deleting the history does not renew the quota.          *)
C19_QuotaNotRenewable ==
    ~HasSettlementRow(subscriptions, UserA, 1)
        => clients["c1"].calls <= FREE_QUOTA

(* C20: under any interleaving of chat turns and resets, every assistant    *)
(* row of a pair is preceded by the user row of its turn: up to any         *)
(* assistant row the pair holds no more assistant rows than user rows.      *)
C20_NoOrphanAssistantRow ==
    LET rows == PairRows(chat_history, UserA, 1)
    IN  \A i \in 1..Len(rows) :
            rows[i].sender = "ai"
                => Len(SelectSeq(SubSeq(rows, 1, i), LAMBDA r : r.sender = "ai"))
                     <= Len(SelectSeq(SubSeq(rows, 1, i), LAMBDA r : r.sender = "user"))

-----------------------------------------------------------------------------
(* The overrun of the free quota *)

\* the largest number of turns that were in flight at the same time so far
PeakInFlight ==
    LET peaks == {clients[c].peak : c \in ClientIds}
    IN  CHOOSE n \in peaks : \A k \in peaks : k <= n

(* C21: with at most N chat turns of main3.py in flight at the same time    *)
(* for one unsubscribed pair and no reset, the pair never holds more than   *)
(* FREE_QUOTA + N - 1 user rows; with N = 1 never more than FREE_QUOTA.     *)
C21_BoundedOverrun ==
    \A N \in 1..Cardinality(ClientIds) :
        PeakInFlight <= N => UserCount(chat_history, UserA, 1) <= FREE_QUOTA + N - 1

\* the bound is attained: two overlapping turns brought the pair to
\* FREE_QUOTA + 1 user rows, and a later turn was refused with that count
C21_Witness ==
    /\ PeakInFlight = 2
    /\ UserCount(chat_history, UserA, 1) = FREE_QUOTA + 1
    /\ \E c \in ClientIds :
          /\ Refused(clients[c])
          /\ clients[c].user_chat_count = FREE_QUOTA + 1

-----------------------------------------------------------------------------
(* The problem and the goal of a conversation *)

(* C22: on every MENTORING turn of main.py the "User Problem" and "User      *)
(* Goal" of the instruction are the first and the second user message the   *)
(* pair recorded since the last reset, for any length of the conversation,  *)
(* also beyond the history window.                                          *)
C22_StableProblemGoal ==
    [][(ModelCalled(resp') /\ resp'.app = "main" /\ resp'.phase = "MENTORING")
        => LET recorded == UserMessages(
                   PairRows(chat_history', resp'.user_id, resp'.mentor_id))
           IN  Instruction(resp').context = <<recorded[1], recorded[2]>>]_vars

-----------------------------------------------------------------------------
(* Whom a settlement reaches *)

\* the subscription rows a step brought to status settlement
NewlySettled ==
    {i \in 1..Len(subscriptions) :
        /\ subscriptions[i].status # "settlement"
        /\ subscriptions'[i].status = "settlement"}

(* C23: a settlement notification for an order created by POST              *)
(* /payment/create changes to settlement only the one subscription row that *)
(* call created, so no step settles rows of two payments or of two pairs,   *)
(* whatever the order ids are built from.                                   *)
C23_SettlementOwnPair ==
    [][\A i, j \in NewlySettled : i = j]_vars

====
